---------------------------- MODULE Spec2Model ----------------------------
(***************************************************************************)
(* Image Viewer: the program entry point and event loop of Sources/Main.c, *)
(* together with the Viewport Engine it drives.                            *)
(*                                                                         *)
(* Main.c is modelled statement by statement: the startup sequence, the    *)
(* SDL_PollEvent drain loop with one action per case of the switch, the    *)
(* per-motion re-zoom for loop (one action per iteration), the draw and    *)
(* the frame pacing.  Viewport.c, Viewport.h and Configuration.h are not   *)
(* part of the available sources: the engine operations, the flipping mode *)
(* enumeration and the maximum zoom factor are modelled from the design    *)
(* document (sections 3 and 4.1) and are marked as such below.             *)
(***************************************************************************)
EXTENDS Integers, Sequences, FiniteSets, TLC

\* ------------------------------------------------------------------ bounds

\* Largest number of events waiting in the SDL queue.
MaxQueue == 2

\* log2 of the configured maximum zoom factor.
MaxZoomLog == 3

\* Window coordinates a cursor may report run from -1 (pointer left of / above
\* the window while captured) to MaxCursor.
MaxCursor == 4

\* Width in bits of unsigned int and of the Uint32 tick counter as modelled:
\* the wrap-around arithmetic is that of the 32-bit types at a width the
\* checker's integers can hold.
UnsignedIntBits == 16

\* ------------------------------------------------- configuration and enums

\* Configuration.h: CONFIGURATION_DISPLAY_REFRESH_RATE_PERIOD, the frame period
\* in milliseconds of a 60 Hz refresh rate (1000 / 60).
CONFIGURATION_DISPLAY_REFRESH_RATE_PERIOD == 16

\* Configuration.h: CONFIGURATION_VIEWPORT_MAXIMUM_ZOOM_FACTOR, a power of two.
CONFIGURATION_VIEWPORT_MAXIMUM_ZOOM_FACTOR == 2 ^ MaxZoomLog

\* Viewport.h: TViewportFlippingModeID, in the order the help text documents.
VIEWPORT_FLIPPING_MODE_ID_NORMAL == 0
VIEWPORT_FLIPPING_MODE_ID_HORIZONTAL == 1
VIEWPORT_FLIPPING_MODE_ID_VERTICAL == 2
VIEWPORT_FLIPPING_MODE_ID_HORIZONTAL_AND_VERTICAL == 3
VIEWPORT_FLIPPING_MODE_IDS_COUNT == 4

\* --------------------------------------------------------------- inputs

\* Command lines: argv[0] is the program name, so argc = Len(argv) and the C
\* argv[1] is the second element.
CommandLines ==
    {<<"image-viewer">>, <<"image-viewer", "--help">>, <<"image-viewer", "image.png">>,
     <<"image-viewer", "--help", "image.png">>, <<"image-viewer", "image.png", "--help">>}

\* Decoded image sizes IMG_Load may return (width, height).
ImageSizes == {<<8, 8>>, <<10, 7>>}

\* Window sizes: the one the viewport is created with, and those a
\* SDL_WINDOWEVENT_SIZE_CHANGED event may carry (data1, data2).
InitialWindowSize == <<4, 4>>
WindowSizes == {<<4, 4>>, <<3, 2>>}

\* Cursor positions in window coordinates: inside the window, on its edge and
\* outside it (a captured pointer, or a window that has shrunk under it).
CursorPositions == {<<1, 1>>, <<3, 2>>, <<-1, 2>>, <<MaxCursor, 0>>}

WindowEvents == {[type |-> "SDL_WINDOWEVENT", event |-> "SDL_WINDOWEVENT_SIZE_CHANGED",
                  data1 |-> s[1], data2 |-> s[2]] : s \in WindowSizes}
                \cup {[type |-> "SDL_WINDOWEVENT", event |-> "SDL_WINDOWEVENT_EXPOSED",
                       data1 |-> 0, data2 |-> 0]}
WheelEvents == {[type |-> "SDL_MOUSEWHEEL", y |-> d] : d \in {-1, 0, 1}}
KeyEvents == {[type |-> "SDL_KEYDOWN", sym |-> k] : k \in {"SDLK_f", "SDLK_q", "SDLK_s", "SDLK_a"}}
MotionEvents == {[type |-> "SDL_MOUSEMOTION", x |-> c[1], y |-> c[2]] : c \in CursorPositions}
OtherEvents == {[type |-> "SDL_KEYUP"]}
QuitEvents == {[type |-> "SDL_QUIT"]}

NoEvent == [type |-> "NONE"]

\* The null surface pointer IMG_Load returns on failure.
NULL == <<>>

NoCursor == [kind |-> "NONE", x |-> 0, y |-> 0]

\* Values SDL_GetTicks may return at the start of a frame: the counter is
\* about to wrap, so a frame that lasts long enough ends after the wrap.
StartTicks == {2 ^ UnsignedIntBits - CONFIGURATION_DISPLAY_REFRESH_RATE_PERIOD \div 2}

\* Milliseconds a frame may take from line 103 to line 179: none, one short of
\* the period, exactly the period, and well over it.
FrameDurations ==
    {0, CONFIGURATION_DISPLAY_REFRESH_RATE_PERIOD - 1,
     CONFIGURATION_DISPLAY_REFRESH_RATE_PERIOD,
     3 * CONFIGURATION_DISPLAY_REFRESH_RATE_PERIOD}

\* No SDL_GetTicks and SDL_Delay yet in the current iteration.
NotPaced == [kind |-> "NONE", duration |-> 0, Elapsed_Time |-> 0, delays |-> <<>>]

\* ------------------------------------------------------------- arithmetic

\* Arithmetic on unsigned int wraps modulo 2 ^ width.
UnsignedInt(n) == n % (2 ^ UnsignedIntBits)

\* C integer division truncates toward zero.
CDiv(a, b) == IF a >= 0 THEN a \div b ELSE -((-a) \div b)

IsPowerOfTwo(n) == \E k \in 0..(MaxZoomLog + 2) : n = 2 ^ k

ValidZoomFactor(z) ==
    IsPowerOfTwo(z) /\ 1 <= z /\ z <= CONFIGURATION_VIEWPORT_MAXIMUM_ZOOM_FACTOR

Clamp(v, lo, hi) == IF v < lo THEN lo ELSE IF v > hi THEN hi ELSE v

\* The powers of two 1, 2, 4, ... up to and including z, ascending.
RECURSIVE PowersUpTo(_, _)
PowersUpTo(p, z) == IF p > z THEN <<>> ELSE <<p>> \o PowersUpTo(2 * p, z)

\* ----------------------------------------------------------- the engine
\* ViewportState (design document, section 3) with the SourceImage size.
\* invalid_argument records that SetZoomedArea rejected its zoom factor.

ViewportUninitialized ==
    [initialized |-> FALSE, image_w |-> 0, image_h |-> 0,
     window_width |-> 0, window_height |-> 0,
     zoom_factor |-> 1, zoomed_origin_x |-> 0, zoomed_origin_y |-> 0,
     flip_mode |-> VIEWPORT_FLIPPING_MODE_ID_NORMAL,
     fit_to_window |-> FALSE, invalid_argument |-> FALSE]

\* Initialize(title, image): zoom_factor = 1, flip_mode = NONE, bound to the
\* initial window size.
ViewportInitialize(image) ==
    [ViewportUninitialized EXCEPT
        !.initialized = TRUE, !.image_w = image[1], !.image_h = image[2],
        !.window_width = InitialWindowSize[1],
        !.window_height = InitialWindowSize[2]]

\* SetDimensions(width, height): new window size, zoom reset to 1 (the full
\* image is visible at zoom 1, so the origin is pinned to (0,0)).
ViewportSetDimensions(v, w, h) ==
    [v EXCEPT !.window_width = w, !.window_height = h, !.zoom_factor = 1,
              !.zoomed_origin_x = 0, !.zoomed_origin_y = 0]

\* ViewportSetFlippingMode storing the mode without resetting the zoom.
ViewportSetFlippingMode_KeepsZoom(v, m) == [v EXCEPT !.flip_mode = m]

\* SetFlippingMode(mode): stores the mode, zoom reset to 1.
ViewportSetFlippingMode(v, m) ==
    [v EXCEPT !.flip_mode = m, !.zoom_factor = 1,
              !.zoomed_origin_x = 0, !.zoomed_origin_y = 0]

\* ScaleImage(): fit to window, zoom reset to 1, flip mode preserved.
ViewportScaleImage(v) ==
    [v EXCEPT !.fit_to_window = TRUE, !.zoom_factor = 1,
              !.zoomed_origin_x = 0, !.zoomed_origin_y = 0]

\* ZoomedOrigin centring the new rectangle on the image point under the cursor
\* in place of keeping that point under the cursor.
ZoomedOrigin_Centred(origin, cursor, window, size, old_zoom, new_zoom) ==
    LET old_visible == CDiv(size, old_zoom)
        new_visible == CDiv(size, new_zoom)
        point == origin + CDiv(cursor * old_visible, window)
        wanted == point - CDiv(new_visible, 2)
    IN  Clamp(wanted, 0, size - new_visible)

\* One axis of SetZoomedArea: the image point under the cursor in the
\* previously visible rectangle stays under the cursor in the new one, then
\* the origin is clamped so the new rectangle stays inside the image.
ZoomedOrigin(origin, cursor, window, size, old_zoom, new_zoom) ==
    LET old_visible == CDiv(size, old_zoom)
        new_visible == CDiv(size, new_zoom)
        point == origin + CDiv(cursor * old_visible, window)
        wanted == point - CDiv(cursor * new_visible, window)
    IN  Clamp(wanted, 0, size - new_visible)

\* SetZoomedArea(cursor_x, cursor_y, zoom_factor): rejects a factor that is not
\* a power of two in 1..MAX_ZOOM, otherwise refines the previous rectangle.
ViewportSetZoomedArea(v, x, y, z) ==
    IF ~ValidZoomFactor(z)
    THEN [v EXCEPT !.invalid_argument = TRUE]
    ELSE [v EXCEPT
            !.zoom_factor = z,
            !.fit_to_window = FALSE,
            !.zoomed_origin_x = ZoomedOrigin(v.zoomed_origin_x, x, v.window_width,
                                             v.image_w, v.zoom_factor, z),
            !.zoomed_origin_y = ZoomedOrigin(v.zoomed_origin_y, y, v.window_height,
                                             v.image_h, v.zoom_factor, z)]

\* ViewportDrawImage clearing the transient fit_to_window flag once drawn.
ViewportDrawImage_ClearsFit(v) == [v EXCEPT !.fit_to_window = FALSE]

\* DrawImage(): pure render, no state is mutated.
ViewportDrawImage(v) == v

\* ------------------------------------------------------------ main(): state

VARIABLES
    argv,                   \* main()'s arguments; argc is its length
    pc,                     \* position in main()
    exit_status,            \* "RUNNING", "EXIT_SUCCESS" or "EXIT_FAILURE"
    Pointer_Surface_Image,  \* NULL or the loaded image's <<width, height>>
    pending,                \* number of events waiting in the SDL event queue
    Event,                  \* the SDL_Event last filled in by SDL_PollEvent
    Zoom_Factor,
    Flipping_Mode,
    i,                      \* the re-zoom loop's counter (0 outside the loop)
    vp,                     \* the engine's ViewportState
    calls,                  \* engine calls made since SDL_PollEvent last returned
    draws,                  \* ViewportDrawImage calls in the current iteration
    polled_empty,           \* SDL_PollEvent returned 0 in the current iteration
    flip_history,           \* Flipping_Mode before each of the last four toggles
    zoom_cursor,            \* cursor of every SetZoomedArea call since the engine
                            \* was last at zoom 1: kind "NONE", "ONE" (x, y) or
                            \* "SEVERAL" (the calls used different cursors)
    Frame_Starting_Time,
    paced                   \* the pacing of the iteration that just ended: the
                            \* time it took, Elapsed_Time as computed and the
                            \* SDL_Delay calls made (NotPaced during an iteration)

vars == <<argv, pc, exit_status, Pointer_Surface_Image, pending, Event, Zoom_Factor,
          Flipping_Mode, i, vp, calls, draws, polled_empty, flip_history,
          zoom_cursor, Frame_Starting_Time, paced>>

argc == Len(argv)

shell_vars == <<Zoom_Factor, Flipping_Mode, i>>
engine_vars == <<vp, zoom_cursor>>
startup_vars == <<exit_status, Pointer_Surface_Image>>
frame_vars == <<draws, polled_empty>>
pacing_vars == <<Frame_Starting_Time, paced>>

Init ==
    /\ argv \in CommandLines
    /\ pc = "check_arguments"
    /\ exit_status = "RUNNING"
    /\ Pointer_Surface_Image = NULL
    /\ pending = 0
    /\ Event = NoEvent
    /\ Zoom_Factor = 1
    /\ Flipping_Mode = VIEWPORT_FLIPPING_MODE_ID_NORMAL
    /\ i = 0
    /\ vp = ViewportUninitialized
    /\ calls = <<>>
    /\ draws = 0
    /\ polled_empty = FALSE
    /\ flip_history = <<>>
    /\ zoom_cursor = NoCursor
    /\ Frame_Starting_Time = 0
    /\ paced = NotPaced

\* return Status; from main().
Return(status) ==
    /\ pc' = "exit"
    /\ exit_status' = status

\* --------------------------------------------------------- main(): startup

\* CheckArguments reporting success after printing the usage for a wrong
\* argument count.
CheckArguments_UsageSucceeds ==
    /\ pc = "check_arguments"
    /\ IF argc # 2 THEN Return("EXIT_SUCCESS")
       ELSE IF argv[2] = "--help" THEN Return("EXIT_SUCCESS")
       ELSE pc' = "init_sdl" /\ UNCHANGED exit_status
    /\ UNCHANGED <<argv, pacing_vars,
                   Pointer_Surface_Image, pending, Event, shell_vars, engine_vars,
                   calls, frame_vars, flip_history>>

\* if (argc != 2) return EXIT_FAILURE; if (strcmp(argv[1], "--help") == 0)
\* return EXIT_SUCCESS;
CheckArguments ==
    /\ pc = "check_arguments"
    /\ IF argc # 2 THEN Return("EXIT_FAILURE")
       ELSE IF argv[2] = "--help" THEN Return("EXIT_SUCCESS")
       ELSE pc' = "init_sdl" /\ UNCHANGED exit_status
    /\ UNCHANGED <<argv, pacing_vars,
                   Pointer_Surface_Image, pending, Event, shell_vars, engine_vars,
                   calls, frame_vars, flip_history>>

InitializeSDL ==
    /\ pc = "init_sdl"
    /\ \E failed \in BOOLEAN :
          IF failed THEN Return("EXIT_FAILURE")
          ELSE pc' = "init_img" /\ UNCHANGED exit_status
    /\ UNCHANGED <<argv, pacing_vars,
                   Pointer_Surface_Image, pending, Event, shell_vars, engine_vars,
                   calls, frame_vars, flip_history>>

InitializeImageLibrary ==
    /\ pc = "init_img"
    /\ \E failed \in BOOLEAN :
          IF failed THEN Return("EXIT_FAILURE")
          ELSE pc' = "load_image" /\ UNCHANGED exit_status
    /\ UNCHANGED <<argv, pacing_vars,
                   Pointer_Surface_Image, pending, Event, shell_vars, engine_vars,
                   calls, frame_vars, flip_history>>

LoadImage ==
    /\ pc = "load_image"
    /\ \E loaded \in ImageSizes \cup {NULL} :
          /\ Pointer_Surface_Image' = loaded
          /\ IF loaded = NULL THEN Return("EXIT_FAILURE")
             ELSE pc' = "init_viewport" /\ UNCHANGED exit_status
    /\ UNCHANGED <<argv, pacing_vars,
                   pending, Event, shell_vars, engine_vars, calls, frame_vars,
                   flip_history>>

\* InitializeViewport ignoring the value ViewportInitialize returns.
InitializeViewport_IgnoreFailure ==
    /\ pc = "init_viewport"
    /\ \E failed \in BOOLEAN :
          /\ vp' = IF failed THEN vp ELSE ViewportInitialize(Pointer_Surface_Image)
          /\ pc' = "frame_start"
          /\ UNCHANGED exit_status
    /\ UNCHANGED <<argv, pacing_vars,
                   Pointer_Surface_Image, pending, Event, shell_vars, zoom_cursor,
                   calls, frame_vars, flip_history>>

InitializeViewport ==
    /\ pc = "init_viewport"
    /\ \E failed \in BOOLEAN :
          IF failed
          THEN Return("EXIT_FAILURE") /\ UNCHANGED vp
          ELSE /\ vp' = ViewportInitialize(Pointer_Surface_Image)
               /\ pc' = "frame_start"
               /\ UNCHANGED exit_status
    /\ UNCHANGED <<argv, pacing_vars,
                   Pointer_Surface_Image, pending, Event, shell_vars, zoom_cursor,
                   calls, frame_vars, flip_history>>

\* ------------------------------------------------------ main(): event loop

\* Frame_Starting_Time = SDL_GetTicks(); a new iteration of while (1) begins.
\* The start of an iteration of while (1), line 103, with the number of events
\* the platform has queued by then.
FrameStartWith(arrived) ==
    /\ pc = "frame_start"
    /\ pc' = "poll"
    /\ \E ticks \in StartTicks : Frame_Starting_Time' = ticks
    /\ paced' = NotPaced
    /\ draws' = 0
    /\ polled_empty' = FALSE
    /\ pending' = pending + arrived
    /\ UNCHANGED <<argv, startup_vars, Event, shell_vars, engine_vars, calls,
                   flip_history>>

FrameStart == FrameStartWith(0)

\* SDL_PollEvent pumps the platform's input into the SDL queue before it looks
\* at the queue: one more event becomes pending.
PumpEvents ==
    /\ pc = "poll"
    /\ pending < MaxQueue
    /\ pending' = pending + 1
    /\ UNCHANGED <<argv, pacing_vars, pc, startup_vars, Event, shell_vars, engine_vars, calls,
                   frame_vars, flip_history>>

\* SDL_PollEvent(&Event) returns 1 and fills in Event with e.
Dequeue(e) ==
    /\ pc = "poll"
    /\ pending > 0
    /\ pending' = pending - 1
    /\ Event' = e

\* PollEmpty leaving the drain loop although events are still pending.
PollEmpty_Early ==
    /\ pc = "poll"
    /\ pc' = "draw"
    /\ polled_empty' = TRUE
    /\ calls' = <<>>
    /\ UNCHANGED <<argv, pacing_vars,
                   startup_vars, pending, Event, shell_vars, engine_vars, draws,
                   flip_history>>

\* SDL_PollEvent(&Event) returns 0: the drain loop ends.
PollEmpty ==
    /\ pc = "poll"
    /\ pending = 0
    /\ pc' = "draw"
    /\ polled_empty' = TRUE
    /\ calls' = <<>>
    /\ UNCHANGED <<argv, pacing_vars,
                   startup_vars, pending, Event, shell_vars, engine_vars, draws,
                   flip_history>>

\* The cursor bookkeeping of a ViewportSetZoomedArea(x, y, z) call that left the
\* engine in state v.
ZoomCursorAfter(zc, v, x, y, z) ==
    IF ~ValidZoomFactor(z) THEN zc
    ELSE IF v.zoom_factor = 1 THEN NoCursor
    ELSE IF zc.kind = "NONE" THEN [kind |-> "ONE", x |-> x, y |-> y]
    ELSE IF zc.kind = "ONE" /\ zc.x = x /\ zc.y = y THEN zc
    ELSE [kind |-> "SEVERAL", x |-> 0, y |-> 0]

\* ViewportSetZoomedArea(x, y, z); log holds the calls already made for the
\* current event.
CallSetZoomedArea(x, y, z, log) ==
    /\ vp' = ViewportSetZoomedArea(vp, x, y, z)
    /\ zoom_cursor' = ZoomCursorAfter(zoom_cursor, vp', x, y, z)
    /\ calls' = Append(log, <<"ViewportSetZoomedArea", x, y, z>>)

\* CaseQuit with break in place of return EXIT_SUCCESS.
CaseQuit_Break ==
    /\ \E e \in QuitEvents : Dequeue(e)
    /\ calls' = <<>>
    /\ UNCHANGED <<argv, pacing_vars,
                   pc, startup_vars, shell_vars, engine_vars, frame_vars, flip_history>>

\* case SDL_QUIT
CaseQuit ==
    /\ \E e \in QuitEvents : Dequeue(e)
    /\ Return("EXIT_SUCCESS")
    /\ calls' = <<>>
    /\ UNCHANGED <<argv, pacing_vars,
                   Pointer_Surface_Image, shell_vars, engine_vars, frame_vars,
                   flip_history>>

\* CaseWindowEvent without Zoom_Factor = 1 after ViewportSetDimensions.
CaseWindowEvent_NoReset ==
    /\ \E e \in WindowEvents :
          /\ Dequeue(e)
          /\ IF e.event = "SDL_WINDOWEVENT_SIZE_CHANGED"
             THEN /\ vp' = ViewportSetDimensions(vp, e.data1, e.data2)
                  /\ zoom_cursor' = NoCursor
                  /\ calls' = <<<<"ViewportSetDimensions", e.data1, e.data2>>>>
             ELSE /\ calls' = <<>>
                  /\ UNCHANGED engine_vars
    /\ UNCHANGED <<argv, pacing_vars, pc, startup_vars, shell_vars, frame_vars, flip_history>>

\* CaseWindowEvent calling ViewportSetDimensions for every window event.
CaseWindowEvent_AnyWindowEvent ==
    /\ \E e \in WindowEvents :
          /\ Dequeue(e)
          /\ vp' = ViewportSetDimensions(vp, e.data1, e.data2)
          /\ zoom_cursor' = NoCursor
          /\ calls' = <<<<"ViewportSetDimensions", e.data1, e.data2>>>>
          /\ Zoom_Factor' = 1
    /\ UNCHANGED <<argv, pacing_vars,
                   pc, startup_vars, Flipping_Mode, i, frame_vars, flip_history>>

\* CaseWindowEvent resetting the flipping mode together with the zoom.
CaseWindowEvent_ResetsFlip ==
    /\ \E e \in WindowEvents :
          /\ Dequeue(e)
          /\ IF e.event = "SDL_WINDOWEVENT_SIZE_CHANGED"
             THEN /\ vp' = ViewportSetDimensions(vp, e.data1, e.data2)
                  /\ zoom_cursor' = NoCursor
                  /\ calls' = <<<<"ViewportSetDimensions", e.data1, e.data2>>>>
                  /\ Zoom_Factor' = 1
                  /\ Flipping_Mode' = VIEWPORT_FLIPPING_MODE_ID_NORMAL
             ELSE /\ calls' = <<>>
                  /\ UNCHANGED <<engine_vars, Zoom_Factor, Flipping_Mode>>
    /\ UNCHANGED <<argv, pacing_vars, pc, startup_vars, i, frame_vars, flip_history>>

\* case SDL_WINDOWEVENT
CaseWindowEvent ==
    /\ \E e \in WindowEvents :
          /\ Dequeue(e)
          /\ IF e.event = "SDL_WINDOWEVENT_SIZE_CHANGED"
             THEN /\ vp' = ViewportSetDimensions(vp, e.data1, e.data2)
                  /\ zoom_cursor' = NoCursor
                  /\ calls' = <<<<"ViewportSetDimensions", e.data1, e.data2>>>>
                  /\ Zoom_Factor' = 1
             ELSE /\ calls' = <<>>
                  /\ UNCHANGED <<engine_vars, Zoom_Factor>>
    /\ UNCHANGED <<argv, pacing_vars,
                   pc, startup_vars, Flipping_Mode, i, frame_vars, flip_history>>

\* WheelZoomFactor comparing with <= in place of <.
WheelZoomFactor_OffByOne(zf, wheel_y) ==
    IF wheel_y > 0
    THEN (IF zf <= CONFIGURATION_VIEWPORT_MAXIMUM_ZOOM_FACTOR THEN zf * 2 ELSE zf)
    ELSE (IF zf > 1 THEN CDiv(zf, 2) ELSE zf)

\* The zoom factor after a wheel event with vertical rotation wheel_y.
WheelZoomFactor(zf, wheel_y) ==
    IF wheel_y > 0
    THEN (IF zf < CONFIGURATION_VIEWPORT_MAXIMUM_ZOOM_FACTOR THEN zf * 2 ELSE zf)
    ELSE (IF zf > 1 THEN CDiv(zf, 2) ELSE zf)

\* CaseMouseWheel calling ViewportSetZoomedArea with the factor it had before
\* the wheel event.
CaseMouseWheel_StaleFactor ==
    /\ \E e \in WheelEvents, Mouse \in CursorPositions :
          /\ Dequeue(e)
          /\ Zoom_Factor' = WheelZoomFactor(Zoom_Factor, e.y)
          /\ CallSetZoomedArea(Mouse[1], Mouse[2], Zoom_Factor, <<>>)
    /\ UNCHANGED <<argv, pacing_vars,
                   pc, startup_vars, Flipping_Mode, i, frame_vars, flip_history>>

\* CaseMouseWheel calling ViewportSetZoomedArea only while zoomed, as the
\* motion handler does.
CaseMouseWheel_OnlyWhileZoomed ==
    /\ \E e \in WheelEvents, Mouse \in CursorPositions :
          /\ Dequeue(e)
          /\ Zoom_Factor' = WheelZoomFactor(Zoom_Factor, e.y)
          /\ IF Zoom_Factor' > 1
             THEN CallSetZoomedArea(Mouse[1], Mouse[2], Zoom_Factor', <<>>)
             ELSE calls' = <<>> /\ UNCHANGED engine_vars
    /\ UNCHANGED <<argv, pacing_vars,
                   pc, startup_vars, Flipping_Mode, i, frame_vars, flip_history>>

\* case SDL_MOUSEWHEEL; SDL_GetMouseState reports Mouse = (Mouse_X, Mouse_Y).
CaseMouseWheel ==
    /\ \E e \in WheelEvents, Mouse \in CursorPositions :
          /\ Dequeue(e)
          /\ Zoom_Factor' = WheelZoomFactor(Zoom_Factor, e.y)
          /\ CallSetZoomedArea(Mouse[1], Mouse[2], Zoom_Factor', <<>>)
    /\ UNCHANGED <<argv, pacing_vars,
                   pc, startup_vars, Flipping_Mode, i, frame_vars, flip_history>>

\* NextFlippingMode comparing with > in place of >=.
NextFlippingMode_OffByOne(m) ==
    IF m + 1 > VIEWPORT_FLIPPING_MODE_IDS_COUNT THEN 0 ELSE m + 1

\* Flipping_Mode++; if (Flipping_Mode >= VIEWPORT_FLIPPING_MODE_IDS_COUNT) Flipping_Mode = 0;
NextFlippingMode(m) ==
    IF m + 1 >= VIEWPORT_FLIPPING_MODE_IDS_COUNT THEN 0 ELSE m + 1

\* The last four entries of a sequence.
LastFour(h) == IF Len(h) <= 4 THEN h ELSE SubSeq(h, Len(h) - 3, Len(h))

\* case SDL_KEYDOWN
CaseKeyDown ==
    /\ \E e \in KeyEvents :
          /\ Dequeue(e)
          /\ IF e.sym = "SDLK_f"
             THEN /\ Flipping_Mode' = NextFlippingMode(Flipping_Mode)
                  /\ vp' = ViewportSetFlippingMode(vp, Flipping_Mode')
                  /\ zoom_cursor' = NoCursor
                  /\ calls' = <<<<"ViewportSetFlippingMode", Flipping_Mode'>>>>
                  /\ flip_history' = LastFour(Append(flip_history, Flipping_Mode))
                  /\ Zoom_Factor' = 1
                  /\ UNCHANGED <<pc, exit_status>>
             ELSE IF e.sym = "SDLK_q"
             THEN /\ Return("EXIT_SUCCESS")
                  /\ calls' = <<>>
                  /\ UNCHANGED <<engine_vars, Zoom_Factor, Flipping_Mode, flip_history>>
             ELSE IF e.sym = "SDLK_s"
             THEN /\ vp' = ViewportScaleImage(vp)
                  /\ zoom_cursor' = NoCursor
                  /\ calls' = <<<<"ViewportScaleImage">>>>
                  /\ Zoom_Factor' = 1
                  /\ UNCHANGED <<pc, exit_status, Flipping_Mode, flip_history>>
             ELSE /\ calls' = <<>>
                  /\ UNCHANGED <<pc, exit_status, engine_vars, Zoom_Factor,
                                 Flipping_Mode, flip_history>>
    /\ UNCHANGED <<argv, pacing_vars, Pointer_Surface_Image, i, frame_vars>>

\* CaseMouseMotion starting the for loop at i = 2, skipping the step at factor 1.
CaseMouseMotion_StartAtTwo ==
    /\ \E e \in MotionEvents : Dequeue(e)
    /\ calls' = <<>>
    /\ IF Zoom_Factor > 1
       THEN i' = 2 /\ pc' = "rezoom"
       ELSE UNCHANGED <<i, pc>>
    /\ UNCHANGED <<argv, pacing_vars,
                   startup_vars, Zoom_Factor, Flipping_Mode, engine_vars, frame_vars,
                   flip_history>>

\* CaseMouseMotion starting the for loop at i = 0, which the shift never moves.
CaseMouseMotion_StartAtZero ==
    /\ \E e \in MotionEvents : Dequeue(e)
    /\ calls' = <<>>
    /\ IF Zoom_Factor > 1
       THEN i' = 0 /\ pc' = "rezoom"
       ELSE UNCHANGED <<i, pc>>
    /\ UNCHANGED <<argv, pacing_vars, startup_vars, Zoom_Factor, Flipping_Mode,
                   engine_vars, frame_vars, flip_history>>

\* case SDL_MOUSEMOTION: if (Zoom_Factor > 1) the for loop starts with i = 1.
CaseMouseMotion ==
    /\ \E e \in MotionEvents : Dequeue(e)
    /\ calls' = <<>>
    /\ IF Zoom_Factor > 1
       THEN i' = 1 /\ pc' = "rezoom"
       ELSE UNCHANGED <<i, pc>>
    /\ UNCHANGED <<argv, pacing_vars,
                   startup_vars, Zoom_Factor, Flipping_Mode, engine_vars, frame_vars,
                   flip_history>>

\* RezoomCondition comparing with < in place of <=.
RezoomCondition_Strict(counter, zf) == counter < zf

\* The for loop's condition, i <= Zoom_Factor.
RezoomCondition(counter, zf) == counter <= zf

\* One iteration of for (i = 1; i <= Zoom_Factor; i <<= 1)
\*     ViewportSetZoomedArea(Event.motion.x, Event.motion.y, i);
RezoomStep ==
    /\ pc = "rezoom"
    /\ RezoomCondition(i, Zoom_Factor)
    /\ CallSetZoomedArea(Event.x, Event.y, i, calls)
    /\ i' = i * 2
    /\ UNCHANGED <<argv, pacing_vars,
                   pc, startup_vars, pending, Event, Zoom_Factor, Flipping_Mode,
                   frame_vars, flip_history>>

\* The for loop's condition fails: break out of the switch.  i is dead from
\* here on (the next loop assigns 1 before reading it) and is kept as 0.
RezoomExit ==
    /\ pc = "rezoom"
    /\ ~RezoomCondition(i, Zoom_Factor)
    /\ pc' = "poll"
    /\ i' = 0
    /\ UNCHANGED <<argv, pacing_vars,
                   startup_vars, pending, Event, Zoom_Factor, Flipping_Mode, engine_vars, calls,
                   frame_vars, flip_history>>

\* default: unhandled event, do nothing.
CaseDefault ==
    /\ \E e \in OtherEvents : Dequeue(e)
    /\ calls' = <<>>
    /\ UNCHANGED <<argv, pacing_vars,
                   pc, startup_vars, shell_vars, engine_vars, frame_vars, flip_history>>

\* ViewportDrawImage();
DrawImage ==
    /\ pc = "draw"
    /\ vp' = ViewportDrawImage(vp)
    /\ calls' = Append(calls, <<"ViewportDrawImage">>)
    /\ draws' = draws + 1
    /\ pc' = "pace"
    /\ UNCHANGED <<argv, pacing_vars,
                   startup_vars, pending, Event, shell_vars, zoom_cursor, polled_empty,
                   flip_history>>

\* ElapsedTicks subtracting as signed int, without the wrap of unsigned int.
ElapsedTicks_Signed(now, start) == now - start

\* SDL_GetTicks() - Frame_Starting_Time, an unsigned int subtraction.
ElapsedTicks(now, start) == UnsignedInt(now - start)

\* if (Elapsed_Time < PERIOD) SDL_Delay(PERIOD - Elapsed_Time): the arguments
\* of the SDL_Delay calls made.
FrameDelays(elapsed) ==
    IF elapsed < CONFIGURATION_DISPLAY_REFRESH_RATE_PERIOD
    THEN <<UnsignedInt(CONFIGURATION_DISPLAY_REFRESH_RATE_PERIOD - elapsed)>>
    ELSE <<>>

\* Elapsed_Time = SDL_GetTicks() - Frame_Starting_Time; SDL_Delay for the
\* remainder of the frame period, then the next iteration of while (1).
\* SDL_GetTicks returns the starting time plus the frame's duration, wrapped.
FramePacing ==
    /\ pc = "pace"
    /\ pc' = "frame_start"
    /\ \E duration \in FrameDurations :
          LET now == UnsignedInt(Frame_Starting_Time + duration)
              Elapsed_Time == ElapsedTicks(now, Frame_Starting_Time)
          IN  paced' = [kind |-> "PACED", duration |-> duration,
                        Elapsed_Time |-> Elapsed_Time,
                        delays |-> FrameDelays(Elapsed_Time)]
    /\ UNCHANGED Frame_Starting_Time
    /\ UNCHANGED <<argv, startup_vars, pending, Event, shell_vars, engine_vars, calls,
                   frame_vars, flip_history>>

Next ==
    \/ CheckArguments
    \/ InitializeSDL
    \/ InitializeImageLibrary
    \/ LoadImage
    \/ InitializeViewport
    \/ FrameStart
    \/ PumpEvents
    \/ PollEmpty
    \/ CaseQuit
    \/ CaseWindowEvent
    \/ CaseMouseWheel
    \/ CaseKeyDown
    \/ CaseMouseMotion
    \/ RezoomStep
    \/ RezoomExit
    \/ CaseDefault
    \/ DrawImage
    \/ FramePacing

Spec == Init /\ [][Next]_vars

\* The platform's input for the coming iteration is queued when the iteration
\* starts and none arrives during the drain: the queue SDL_PollEvent drains is
\* finite.
FrameStartQueued == \E arrived \in 1..MaxQueue : FrameStartWith(arrived)

\* One statement of main(): it is the only thread, and it always runs on.
MainStep ==
    \/ CheckArguments
    \/ InitializeSDL
    \/ InitializeImageLibrary
    \/ LoadImage
    \/ InitializeViewport
    \/ FrameStart
    \/ FrameStartQueued
    \/ PollEmpty
    \/ CaseQuit
    \/ CaseWindowEvent
    \/ CaseMouseWheel
    \/ CaseKeyDown
    \/ CaseMouseMotion
    \/ RezoomStep
    \/ RezoomExit
    \/ CaseDefault
    \/ DrawImage
    \/ FramePacing

SpecFiniteQueue == Init /\ [][MainStep]_vars /\ WF_vars(MainStep)

\* ------------------------------------------------------------ properties

SizeChanged(e) ==
    e.type = "SDL_WINDOWEVENT" /\ e.event = "SDL_WINDOWEVENT_SIZE_CHANGED"

KeyPressed(e, sym) == e.type = "SDL_KEYDOWN" /\ e.sym = sym

\* The step dequeues an event: SDL_PollEvent returned 1.
Dequeued == pending' = pending - 1

\* The visible sub-rectangle at zoom factor z lies inside the image.
VisibleInsideImage(z) ==
    /\ vp.zoomed_origin_x >= 0
    /\ vp.zoomed_origin_y >= 0
    /\ vp.zoomed_origin_x + CDiv(vp.image_w, z) <= vp.image_w
    /\ vp.zoomed_origin_y + CDiv(vp.image_h, z) <= vp.image_h

\* C1: after any sequence of resize, wheel, motion, flip-key and fit-key events
\* the visible sub-rectangle stays inside the image, zoomed_origin >= 0 and
\* zoomed_origin + size / zoom_factor <= size on both axes, for the engine's
\* zoom factor and, between events, for the zoom factor main() tracks.
C1_VisibleInsideImage ==
    vp.initialized =>
        /\ VisibleInsideImage(vp.zoom_factor)
        /\ pc # "rezoom" => VisibleInsideImage(Zoom_Factor)

\* A wheel event at the maximum zoom factor left the visible rectangle pushed
\* against the right edge of the image by the clamping.
C1_Witness ==
    /\ Event.type = "SDL_MOUSEWHEEL"
    /\ Len(calls) = 1
    /\ Zoom_Factor = CONFIGURATION_VIEWPORT_MAXIMUM_ZOOM_FACTOR
    /\ vp.zoom_factor = Zoom_Factor
    /\ vp.zoomed_origin_x > 0
    /\ vp.zoomed_origin_x + CDiv(vp.image_w, Zoom_Factor) = vp.image_w

SetZoomedAreaCall(c) == c[1] = "ViewportSetZoomedArea"

\* C2: in every reachable state the zoom factor is a power of two in
\* 1..MAX_ZOOM, every ViewportSetZoomedArea call passes such a factor, and the
\* engine never rejects a factor as an invalid argument.
C2_ZoomFactorValid ==
    /\ ValidZoomFactor(Zoom_Factor)
    /\ \A k \in 1..Len(calls) :
          SetZoomedAreaCall(calls[k]) => ValidZoomFactor(calls[k][4])
    /\ ~vp.invalid_argument

\* A zoom-in wheel event handled with the factor at the maximum.
C2_Witness ==
    /\ Event.type = "SDL_MOUSEWHEEL"
    /\ Event.y > 0
    /\ Zoom_Factor = CONFIGURATION_VIEWPORT_MAXIMUM_ZOOM_FACTOR
    /\ Len(calls) = 1
    /\ calls[1][4] = CONFIGURATION_VIEWPORT_MAXIMUM_ZOOM_FACTOR

ResetEvent(e) ==
    SizeChanged(e) \/ KeyPressed(e, "SDLK_f") \/ KeyPressed(e, "SDLK_s")

\* C3: once a size-changed event, a flip toggle or a fit key has been handled
\* the zoom factor is 1, in main() and in the engine, whatever it was before;
\* the step that handles the event makes exactly the matching engine call.
C3_ResetCoupling ==
    /\ [](ResetEvent(Event) => Zoom_Factor = 1 /\ vp.zoom_factor = 1)
    /\ [][(Dequeued /\ ResetEvent(Event') /\ Zoom_Factor > 1)
            => (Zoom_Factor' = 1 /\ vp'.zoom_factor = 1 /\ Len(calls') = 1)]_vars

\* The fit key has been handled: ViewportScaleImage was the one engine call
\* and the zoom factor is 1.
C3_Witness ==
    /\ KeyPressed(Event, "SDLK_s")
    /\ calls = <<<<"ViewportScaleImage">>>>
    /\ Zoom_Factor = 1
    /\ vp.fit_to_window

FlippingModes ==
    {VIEWPORT_FLIPPING_MODE_ID_NORMAL, VIEWPORT_FLIPPING_MODE_ID_HORIZONTAL,
     VIEWPORT_FLIPPING_MODE_ID_VERTICAL, VIEWPORT_FLIPPING_MODE_ID_HORIZONTAL_AND_VERTICAL}

\* The documented cycle: none, horizontal, vertical, both, none.
FlipCycle(m) ==
    CASE m = VIEWPORT_FLIPPING_MODE_ID_NORMAL -> VIEWPORT_FLIPPING_MODE_ID_HORIZONTAL
      [] m = VIEWPORT_FLIPPING_MODE_ID_HORIZONTAL -> VIEWPORT_FLIPPING_MODE_ID_VERTICAL
      [] m = VIEWPORT_FLIPPING_MODE_ID_VERTICAL -> VIEWPORT_FLIPPING_MODE_ID_HORIZONTAL_AND_VERTICAL
      [] OTHER -> VIEWPORT_FLIPPING_MODE_ID_NORMAL

\* C4: the flip mode starts at NONE, each flip toggle advances it one step
\* along NONE -> HORIZONTAL -> VERTICAL -> BOTH -> NONE and passes the new mode
\* to ViewportSetFlippingMode, no other step changes it, it is always one of
\* the four modes, and after four toggles it is what it was before them.
C4_FlipCycle ==
    /\ [](/\ Flipping_Mode \in FlippingModes
          /\ flip_history = <<>> => Flipping_Mode = VIEWPORT_FLIPPING_MODE_ID_NORMAL
          /\ Len(flip_history) = 4 => flip_history[1] = Flipping_Mode
          /\ vp.flip_mode = Flipping_Mode)
    /\ [][IF Dequeued /\ KeyPressed(Event', "SDLK_f")
          THEN /\ Flipping_Mode' = FlipCycle(Flipping_Mode)
               /\ calls' = <<<<"ViewportSetFlippingMode", Flipping_Mode'>>>>
          ELSE Flipping_Mode' = Flipping_Mode]_vars

\* Four toggles have been handled and the flip mode is NONE again.
C4_Witness ==
    /\ KeyPressed(Event, "SDLK_f")
    /\ Len(flip_history) = 4
    /\ flip_history[1] = VIEWPORT_FLIPPING_MODE_ID_NORMAL
    /\ Flipping_Mode = VIEWPORT_FLIPPING_MODE_ID_NORMAL

\* C5: a wheel event moves the zoom factor by at most one power-of-two step:
\* rotation in the zoom-in direction doubles it unless it is MAX_ZOOM, rotation
\* in the zoom-out direction halves it unless it is 1, and a wheel event with
\* no vertical rotation leaves it unchanged.
C5_WheelStep ==
    [][(Dequeued /\ Event'.type = "SDL_MOUSEWHEEL") =>
        Zoom_Factor' =
            IF Event'.y > 0
            THEN (IF Zoom_Factor = CONFIGURATION_VIEWPORT_MAXIMUM_ZOOM_FACTOR
                  THEN Zoom_Factor ELSE 2 * Zoom_Factor)
            ELSE IF Event'.y < 0
            THEN (IF Zoom_Factor = 1 THEN Zoom_Factor ELSE CDiv(Zoom_Factor, 2))
            ELSE Zoom_Factor]_vars

\* The calls the motion handler makes for event e at zoom factor zf.
MotionCalls(e, zf) ==
    IF zf > 1
    THEN LET factors == PowersUpTo(1, zf)
         IN  [k \in 1..Len(factors) |-> <<"ViewportSetZoomedArea", e.x, e.y, factors[k]>>]
    ELSE <<>>

\* C6: a mouse-motion event at zoom factor Z > 1 makes one ViewportSetZoomedArea
\* call for each power of two 1, 2, ..., Z in ascending order, all with the
\* event's coordinates, the last with Z, and leaves the zoom factor at Z; at
\* zoom factor 1 it makes no engine call.
C6_MotionRezoom ==
    /\ [](pc = "rezoom" =>
            /\ Event.type = "SDL_MOUSEMOTION"
            /\ Zoom_Factor > 1
            /\ Len(calls) <= Len(MotionCalls(Event, Zoom_Factor))
            /\ calls = SubSeq(MotionCalls(Event, Zoom_Factor), 1, Len(calls)))
    /\ [][(pc = "rezoom" /\ pc' # "rezoom") =>
            /\ calls' = MotionCalls(Event, Zoom_Factor)
            /\ vp'.zoom_factor = Zoom_Factor]_vars
    /\ [][(Dequeued /\ Event'.type = "SDL_MOUSEMOTION") =>
            /\ calls' = <<>>
            /\ vp' = vp
            /\ pc' = IF Zoom_Factor > 1 THEN "rezoom" ELSE "poll"]_vars
    /\ [][((Dequeued /\ Event'.type = "SDL_MOUSEMOTION") \/ pc = "rezoom")
            => Zoom_Factor' = Zoom_Factor]_vars

\* A motion event has been handled at the maximum zoom factor: the loop made
\* all its calls.
C6_Witness ==
    /\ Event.type = "SDL_MOUSEMOTION"
    /\ pc = "poll"
    /\ Zoom_Factor = CONFIGURATION_VIEWPORT_MAXIMUM_ZOOM_FACTOR
    /\ Len(calls) = MaxZoomLog + 1
    /\ calls[Len(calls)][4] = Zoom_Factor

\* C7: in every iteration ViewportDrawImage is called exactly once, after
\* SDL_PollEvent has returned 0 and with no event pending, and never twice
\* without an empty poll in between.
C7_DrawOncePerIteration ==
    /\ draws <= 1
    /\ pc \in {"poll", "rezoom"} => draws = 0 /\ ~polled_empty
    /\ pc = "draw" => draws = 0 /\ polled_empty /\ pending = 0
    /\ pc = "pace" => draws = 1 /\ polled_empty /\ pending = 0
                      /\ calls = <<<<"ViewportDrawImage">>>>
    /\ pc = "frame_start" /\ draws = 1 => polled_empty

\* The frame has been drawn after a drain that handled a motion event.
C7_Witness ==
    /\ pc = "pace"
    /\ draws = 1
    /\ Event.type = "SDL_MOUSEMOTION"
    /\ vp.zoom_factor > 1

QuitSignal(e) == e.type = "SDL_QUIT" \/ KeyPressed(e, "SDLK_q")

\* C8: when a quit event or a 'q' keypress is dequeued main() returns
\* EXIT_SUCCESS at once: that step makes no engine call and leaves the engine
\* and the events behind it untouched, and no step follows the return.
C8_QuitExitsImmediately ==
    /\ [][(Dequeued /\ QuitSignal(Event')) =>
            /\ pc' = "exit"
            /\ exit_status' = "EXIT_SUCCESS"
            /\ calls' = <<>>
            /\ draws' = 0
            /\ UNCHANGED <<vp, Zoom_Factor, Flipping_Mode>>]_vars
    /\ [][pc # "exit"]_vars
    /\ [](QuitSignal(Event) => pc = "exit")

\* The 'q' key ended the program while zoomed, with events still queued.
C8_Witness ==
    /\ pc = "exit"
    /\ KeyPressed(Event, "SDLK_q")
    /\ pending > 0
    /\ vp.zoom_factor > 1
    /\ exit_status = "EXIT_SUCCESS"

\* The engine state after stepping ViewportSetZoomedArea through factors at
\* the cursor (x, y).
RECURSIVE ZoomThrough(_, _, _, _)
ZoomThrough(v, x, y, factors) ==
    IF factors = <<>> THEN v
    ELSE ZoomThrough(ViewportSetZoomedArea(v, x, y, Head(factors)), x, y, Tail(factors))

\* The engine's origin is the one that stepping 1 -> 2 -> ... -> zoom_factor
\* at the cursor c yields.
SameAsStepped(c) ==
    LET stepped == ZoomThrough(vp, c.x, c.y, PowersUpTo(1, vp.zoom_factor))
    IN  /\ vp.zoomed_origin_x = stepped.zoomed_origin_x
        /\ vp.zoomed_origin_y = stepped.zoomed_origin_y

InsideWindow(c) ==
    /\ 0 <= c.x /\ c.x < vp.window_width
    /\ 0 <= c.y /\ c.y < vp.window_height

C10_ZoomOneFullImage ==
    (vp.zoom_factor = 1 \/ Zoom_Factor = 1) =>
        (vp.zoomed_origin_x = 0 /\ vp.zoomed_origin_y = 0)

\* A zoom-out wheel event brought the factor back to 1.
C10_Witness ==
    /\ Event.type = "SDL_MOUSEWHEEL"
    /\ Event.y < 0
    /\ Zoom_Factor = 1
    /\ calls = <<<<"ViewportSetZoomedArea", 3, 2, 1>>>>
    /\ vp.zoomed_origin_x = 0
    /\ vp.zoomed_origin_y = 0

\* The view state main() tracks and the engine holds.
view_state == <<vp, Zoom_Factor, Flipping_Mode>>

\* C11: ViewportDrawImage mutates no view state: zoom factor, zoomed origin,
\* flip mode, window dimensions and fit_to_window are the same after the call
\* as before it, and so are they across every step between two draws that
\* handles no event.
C11_DrawMutatesNothing ==
    /\ [][pc = "draw" => (pc' = "pace" /\ draws' = draws + 1 /\ UNCHANGED view_state)]_vars
    /\ [][(pc \in {"pace", "frame_start"} \/ (pc = "poll" /\ ~Dequeued))
            => UNCHANGED view_state]_vars

\* A frame has been drawn in fit-to-window mode with the image flipped.
C11_Witness ==
    /\ pc = "pace"
    /\ draws = 1
    /\ vp.fit_to_window
    /\ vp.flip_mode = VIEWPORT_FLIPPING_MODE_ID_HORIZONTAL_AND_VERTICAL

\* The engine calls event e must cause, given the flipping mode after it.
ExpectedCalls(e, flipping_mode) ==
    IF e.type = "SDL_MOUSEWHEEL"
    THEN {<<<<"ViewportSetZoomedArea", c[1], c[2], z>>>> :
            c \in CursorPositions, z \in 1..CONFIGURATION_VIEWPORT_MAXIMUM_ZOOM_FACTOR}
    ELSE IF SizeChanged(e) THEN {<<<<"ViewportSetDimensions", e.data1, e.data2>>>>}
    ELSE IF KeyPressed(e, "SDLK_f") THEN {<<<<"ViewportSetFlippingMode", flipping_mode>>>>}
    ELSE IF KeyPressed(e, "SDLK_s") THEN {<<<<"ViewportScaleImage">>>>}
    ELSE {<<>>}

\* C13: a dequeued wheel, size-changed, flip-key or fit-key event causes
\* exactly one engine call, of the matching operation, and no other; window
\* events other than size-changed, other keys and unhandled event types cause
\* none.
C13_OneCallPerEvent ==
    [][(Dequeued /\ Event'.type # "SDL_MOUSEMOTION")
        => calls' \in ExpectedCalls(Event', Flipping_Mode')]_vars

\* A window event other than size-changed was handled while zoomed: no call.
C13_Witness ==
    /\ Event.type = "SDL_WINDOWEVENT"
    /\ ~SizeChanged(Event)
    /\ calls = <<>>
    /\ pc = "poll"
    /\ vp.zoom_factor > 1

\* C14: whenever an event has been fully handled, and at every
\* ViewportDrawImage call, the zoom factor main() tracks equals the engine's:
\* the factor of the last ViewportSetZoomedArea call, or 1 after a reset.
C14_ZoomFactorsAgree ==
    (vp.initialized /\ pc # "rezoom") =>
        /\ Zoom_Factor = vp.zoom_factor
        /\ (calls # <<>> /\ SetZoomedAreaCall(calls[Len(calls)]))
              => Zoom_Factor = calls[Len(calls)][4]

\* The frame is about to be drawn at the maximum zoom factor.
C14_Witness ==
    /\ pc = "draw"
    /\ Zoom_Factor = CONFIGURATION_VIEWPORT_MAXIMUM_ZOOM_FACTOR
    /\ vp.zoom_factor = Zoom_Factor

\* The engine as ViewportInitialize and ViewportSetDimensions leave it for the
\* image and window sizes of v: no wheel or motion event has acted on it.
FreshViewport(v) ==
    ViewportSetDimensions(ViewportInitialize(<<v.image_w, v.image_h>>),
                          v.window_width, v.window_height)

\* C15: when the motion handler has finished while zoomed, the zoomed origin is
\* a function of the motion coordinates, the zoom factor and the image and
\* window sizes alone: the one a fresh engine reaches by the same steps,
\* whatever wheel and motion events came before.
C15_MotionForgetsHistory ==
    [][(pc = "rezoom" /\ pc' # "rezoom") =>
        LET fresh == ZoomThrough(FreshViewport(vp), Event.x, Event.y,
                                 PowersUpTo(1, Zoom_Factor))
        IN  /\ vp'.zoomed_origin_x = fresh.zoomed_origin_x
            /\ vp'.zoomed_origin_y = fresh.zoomed_origin_y
            /\ vp'.zoom_factor = fresh.zoom_factor]_vars

\* The motion handler has finished at (3, 2) with the view panned away from
\* the image's corner.
C15_Witness ==
    /\ Event.type = "SDL_MOUSEMOTION"
    /\ Event.x = 3
    /\ pc = "poll"
    /\ Len(calls) > 1
    /\ vp.zoomed_origin_x > 0
    /\ vp.zoomed_origin_y > 0

\* C16: only the flip toggle changes the flip mode, in main() and in the
\* engine: wheel, motion, size-changed and fit-key events, unhandled events
\* and ViewportDrawImage leave it unchanged.
C16_OnlyToggleChangesFlip ==
    [][~(Dequeued /\ KeyPressed(Event', "SDLK_f"))
        => (vp'.flip_mode = vp.flip_mode /\ Flipping_Mode' = Flipping_Mode)]_vars

\* The fit key was handled with the image flipped both ways: still flipped.
C16_Witness ==
    /\ KeyPressed(Event, "SDLK_s")
    /\ calls = <<<<"ViewportScaleImage">>>>
    /\ vp.flip_mode = VIEWPORT_FLIPPING_MODE_ID_HORIZONTAL_AND_VERTICAL
    /\ Flipping_Mode = VIEWPORT_FLIPPING_MODE_ID_HORIZONTAL_AND_VERTICAL

StartupPositions ==
    {"check_arguments", "init_sdl", "init_img", "load_image", "init_viewport"}

\* C17: ViewportInitialize is called at most once and only after the image was
\* loaded, and no other engine call is made before it has returned success.
C17_StartupOrdering ==
    /\ [](pc = "init_viewport" => Pointer_Surface_Image \in ImageSizes)
    /\ [](vp.initialized => Pointer_Surface_Image \in ImageSizes)
    /\ [](~vp.initialized =>
            /\ pc \in StartupPositions \cup {"exit"}
            /\ calls = <<>> /\ draws = 0 /\ Event = NoEvent)
    /\ [][pc' = "init_viewport" => pc = "load_image"]_vars
    /\ [][vp'.initialized # vp.initialized
            => (pc = "init_viewport" /\ pc' = "frame_start" /\ vp'.initialized)]_vars

\* The first frame is drawn by an engine initialized with the loaded image.
C17_Witness ==
    /\ pc = "pace"
    /\ draws = 1
    /\ vp.initialized
    /\ Event = NoEvent
    /\ <<vp.image_w, vp.image_h>> = Pointer_Surface_Image

\* argv[1] is "--help" on a command line of two arguments.
HelpRequested == argc = 2 /\ argv[2] = "--help"

\* C12: the process ends with EXIT_SUCCESS only on a help request or a quit
\* signal; a wrong argument count and every failure of a startup step (SDL,
\* image library, image load, ViewportInitialize) end it with EXIT_FAILURE,
\* and then the event loop was never entered.
C12_ExitStatus ==
    /\ [](pc = "exit" <=> exit_status # "RUNNING")
    /\ [](exit_status = "EXIT_SUCCESS" =>
            \/ HelpRequested /\ ~vp.initialized
            \/ QuitSignal(Event) /\ vp.initialized)
    /\ []((argc # 2 /\ pc # "check_arguments") => exit_status = "EXIT_FAILURE")
    /\ [](exit_status = "EXIT_FAILURE" =>
            /\ ~HelpRequested
            /\ ~vp.initialized
            /\ Event = NoEvent /\ pending = 0 /\ calls = <<>>
            /\ draws = 0 /\ ~polled_empty
            /\ Frame_Starting_Time = 0 /\ paced = NotPaced)
    /\ [][(pc \in StartupPositions /\ pc' = "exit" /\ ~HelpRequested)
            => exit_status' = "EXIT_FAILURE"]_vars
    /\ [][(pc \in StartupPositions /\ pc' \notin StartupPositions \cup {"exit"})
            => (pc = "init_viewport" /\ pc' = "frame_start" /\ vp'.initialized)]_vars

\* ViewportInitialize failed on a loaded image: the process ended with failure.
C12_Witness ==
    /\ pc = "exit"
    /\ exit_status = "EXIT_FAILURE"
    /\ Pointer_Surface_Image \in ImageSizes
    /\ ~vp.initialized

\* C19: at the end of an iteration SDL_Delay is called with exactly the frame
\* period less the elapsed time when the elapsed time is below the period (a
\* delay in 1..period, the subtraction does not wrap) and is not called
\* otherwise; either way the frame was drawn once, nothing but the pacing
\* record changes, and the next iteration starts polling.
C19_FramePacing ==
    /\ [](paced.kind = "PACED" =>
            /\ paced.Elapsed_Time = paced.duration
            /\ IF paced.duration < CONFIGURATION_DISPLAY_REFRESH_RATE_PERIOD
               THEN /\ paced.delays =
                         <<CONFIGURATION_DISPLAY_REFRESH_RATE_PERIOD - paced.duration>>
                    /\ paced.delays[1] \in 1..CONFIGURATION_DISPLAY_REFRESH_RATE_PERIOD
               ELSE paced.delays = <<>>
            /\ pc = "frame_start"
            /\ draws = 1)
    /\ [][pc = "pace" => (pc' = "frame_start" /\ paced'.kind = "PACED"
                          /\ UNCHANGED <<view_state, pending, Event>>)]_vars
    /\ [][pc = "frame_start" => (pc' = "poll" /\ draws' = 0
                                 /\ UNCHANGED <<view_state, pending, Event>>)]_vars

\* A frame that ended after the tick counter wrapped, one millisecond short of
\* the period, was followed by SDL_Delay(1).
C19_Witness ==
    /\ pc = "frame_start"
    /\ paced.kind = "PACED"
    /\ paced.duration = CONFIGURATION_DISPLAY_REFRESH_RATE_PERIOD - 1
    /\ Frame_Starting_Time + paced.duration >= 2 ^ UnsignedIntBits
    /\ paced.delays = <<1>>

\* C18: with a finite queue, an iteration that dequeues no quit signal ends
\* its drain and calls ViewportDrawImage: from the poll the loop reaches the
\* position after the draw (or main() has returned on a quit signal), the
\* re-zoom for loop always returns to the poll, and it makes at most
\* log2(MAX_ZOOM) + 1 ViewportSetZoomedArea calls.
C18_DrainTerminates ==
    /\ (pc = "poll") ~> (pc = "pace" \/ pc = "exit")
    /\ (pc = "rezoom") ~> (pc = "poll")
    /\ [](pc = "rezoom" => (Len(calls) <= MaxZoomLog + 1 /\ i <= 2 * Zoom_Factor))
    /\ [][(pc = "poll" /\ pc' = "exit") => QuitSignal(Event')]_vars

\* The re-zoom loop has made its last call at the maximum zoom factor with
\* another event still queued behind the motion event.
C18_Witness ==
    /\ pc = "rezoom"
    /\ Len(calls) = MaxZoomLog + 1
    /\ pending > 0

==========================================================================
